---- MODULE Spec2Model ----
(***************************************************************************)
(* post-fetcher: the periodic ingestion loop (app/services/                *)
(* background_tasks.py), one fetch cycle (app/services/fetcher_service.py) *)
(* and the posts collection with its unique post_id index                  *)
(* (app/models/database.py), as an asyncio state machine.  Every await of  *)
(* the code is one suspension point (pc) of a task; a step of a task runs  *)
(* the code from one await to the next.                                    *)
(***************************************************************************)
EXTENDS Integers, Sequences, FiniteSets, TLC

\* ------------------------------------------------------------------ bounds
MaxTasks == 2      \* loop tasks that may exist (not yet collected) at once
MaxId == 2         \* post ids of the external source are 1..MaxId
MaxLen == 2        \* longest candidate list the external source returns
MaxCycleId == 3    \* ids and list length where one loop runs alone
MaxCycleLen == 3

TaskIds == 1..MaxTasks
PostIds == 1..MaxId
None == 0          \* Python's None for the task handle

\* MAX_POSTS_PER_FETCH is read with int(): any integer is accepted.
Caps == {-1, 0, 1, 2}

Min(a, b) == IF a <= b THEN a ELSE b
Max(a, b) == IF a >= b THEN a ELSE b

\* All sequences over S of length at most n.
SeqsUpTo(S, n) == UNION {[1..k -> S] : k \in 0..n}

VARIABLES
    fetcher_task,        \* _fetcher_task: None or the handle of a loop task
    fetcher_running,     \* _fetcher_running
    tasks,               \* the loop tasks created by asyncio.create_task
    store,               \* the posts collection: its documents, by post_id
    orphans,             \* insert_one requests on the wire whose issuer was cancelled
    source,              \* what GET {base}/posts returns
    max_posts_per_fetch, \* MAX_POSTS_PER_FETCH
    lastCall,            \* the last start/stop/status call a client logged
    failing,             \* ids whose comments or fields never get through
    lifespan,            \* where main.lifespan stands
    db,                  \* database_manager: _is_connected, and the unique index
    clock                \* datetime.now(timezone.utc), in ticks

vars == <<fetcher_task, fetcher_running, tasks, store, orphans, source,
          max_posts_per_fetch, lastCall, failing, lifespan, db, clock>>

\* What no step of the scheduler, of a loop task or of a request changes.
Env == <<failing, lifespan, db, clock>>

\* ------------------------------------------------------------ pure helpers

\* A query for the stored ids that sees none.
NoStoredIds(s) == {}

\* posts_collection.find({}, {"post_id": 1}) -> {post["post_id"] ...}
StoredIds(s) == {s[i].post_id : i \in 1..Len(s)}

\* PostModel as stored by insert_one (fields the properties read).
NewDoc(id) == [post_id |-> id, body |-> "src", updated_at |-> 0]

\* A collection keeps no order of its own: its documents are listed by
\* post_id, a new one after those that have its post_id.
AddDoc(s, d) ==
    LET k == Cardinality({i \in 1..Len(s) : s[i].post_id <= d.post_id})
    IN  SubSeq(s, 1, k) \o <<d>> \o SubSeq(s, k + 1, Len(s))

\* The unique index on post_id: insert_one raises DuplicateKeyError when a
\* document with the same post_id is present, otherwise adds the document.
DuplicateKey(s, id) == id \in StoredIds(s)

\* A save that replaces the document of the id (replace_one with upsert).
insert_one_upsert(s, id) ==
    AddDoc(SelectSeq(s, LAMBDA d : d.post_id # id), NewDoc(id))

\* insert_one on a collection without the unique index.
insert_one_no_index(s, id) == AddDoc(s, NewDoc(id))

insert_one(s, id) == IF DuplicateKey(s, id) THEN s ELSE AddDoc(s, NewDoc(id))

\* Every candidate of the list has a document in collection s.
AllStored(all_posts, s) ==
    \A i \in 1..Len(all_posts) : all_posts[i] \in StoredIds(s)

\* Python's seq[:n]: a negative n counts from the end.
PySlice(s, n) ==
    IF n >= 0 THEN SubSeq(s, 1, Min(n, Len(s)))
    ELSE SubSeq(s, 1, Max(Len(s) + n, 0))

\* A cycle that takes every candidate for new.
NewPostsUnfiltered(all_posts, existing_ids) == all_posts

\* new_posts = [post for post in all_posts if post["id"] not in existing_ids]
NewPosts(all_posts, existing_ids) ==
    SelectSeq(all_posts, LAMBDA p : p \notin existing_ids)

\* posts_to_process = new_posts[:self.max_posts_per_fetch]
PostsToProcess(all_posts, existing_ids, cap) ==
    PySlice(NewPosts(all_posts, existing_ids), cap)

NoSummary == [total_fetched |-> -1, new_posts |-> -1, skipped_posts |-> -1]

\* A summary that reports the records of the batch, stored or not, as new.
SummaryOfBatch(all_posts, existing_ids, stored_count) ==
    [total_fetched |-> Len(all_posts),
     new_posts |-> Len(PostsToProcess(all_posts, existing_ids, max_posts_per_fetch)),
     skipped_posts |-> Len(all_posts) - Len(NewPosts(all_posts, existing_ids))]

\* result = {"total_fetched": ..., "new_posts": ..., "skipped_posts": ...}
Summary(all_posts, existing_ids, stored_count) ==
    [total_fetched |-> Len(all_posts),
     new_posts |-> stored_count,
     skipped_posts |-> Len(all_posts) - Len(NewPosts(all_posts, existing_ids))]

\* ------------------------------------------------------------- loop tasks

\* Suspension points inside fetch_and_store_posts (one fetch cycle).
CyclePcs == {"posts", "existing", "comments", "save", "saved", "close"}

\* Suspension points of a cycle that still has work to do.
MidCycle == CyclePcs \ {"close"}

\* A task slot nobody refers to.  st: "free" (no task), "pending" (created by
\* create_task, coroutine not yet entered), "active", "done".
\* Locals of the running cycle: all_posts, existing_ids, idx (position in
\* posts_to_process), stored_count, res (the answer of insert_one), exc (the
\* exception travelling through the finally of fetch_and_store_posts).
\* Bookkeeping read by the properties only: inserted (ids this cycle stored,
\* in order), clean (no record of this cycle failed), lost (an insert of this
\* cycle met DuplicateKeyError), summary (what fetch_and_store_data returned),
\* ended (how the cycle before the sleep finished: "ok", "err"; known until
\* the next cycle has its batch) and full (the cycle before this one returned
\* and left every candidate stored).
FreeTask ==
    [st |-> "free", cancel |-> FALSE, pc |-> "none",
     all_posts |-> <<>>, existing_ids |-> {}, idx |-> 0, stored_count |-> 0,
     res |-> "none", exc |-> "none",
     inserted |-> <<>>, clean |-> TRUE, lost |-> FALSE,
     summary |-> NoSummary, ended |-> "none", full |-> FALSE]

Alive(t) == tasks[t].st \in {"pending", "active"}

\* asyncio.Task.done()
TaskDone(t) == tasks[t].st = "done"

\* Task t ends: its frame and locals are gone.  The task object stays (done)
\* while the module's handle names it and is collected otherwise.
Finished(t) ==
    [FreeTask EXCEPT !.st = IF fetcher_task = t THEN "done" ELSE "free"]

\* posts_to_process of task record r
ToProcess(r) == PostsToProcess(r.all_posts, r.existing_ids, max_posts_per_fetch)

\* The ids whose processing the cycle of r has begun, in order.
Attempted(r) == SubSeq(ToProcess(r), 1, r.idx)

\* fetch_and_store_posts() is entered: FetcherService().fetch_and_store_data()
\* runs to its first await, self._fetch_posts().
EnterCycle(r) ==
    [r EXCEPT !.pc = "posts", !.all_posts = <<>>, !.existing_ids = {},
              !.idx = 0, !.stored_count = 0, !.res = "none", !.exc = "none",
              !.inserted = <<>>, !.clean = TRUE, !.lost = FALSE,
              !.summary = NoSummary]

\* An `if` in place of the while: one cycle, one sleep, and the loop is over.
LoopTestOnce(t, r, running) ==
    IF running /\ r.pc # "sleep" THEN EnterCycle(r) ELSE Finished(t)

\* `while _fetcher_running:` evaluated by task t, whose record is r.
LoopTest(t, r, running) == IF running THEN EnterCycle(r) ELSE Finished(t)

\* The for loop moves to its next record, or past its end to the summary, the
\* return and the finally of fetch_and_store_posts (await fetcher.close()).
NextRecord(r) ==
    IF r.idx < Len(ToProcess(r))
    THEN [r EXCEPT !.idx = r.idx + 1, !.pc = "comments", !.res = "none",
                   !.ended = "none"]
    ELSE [r EXCEPT !.pc = "close", !.exc = "none", !.res = "none",
                   !.ended = "none",
                   !.summary = Summary(r.all_posts, r.existing_ids, r.stored_count)]

\* An exception leaves fetch_and_store_data: the finally awaits close().
Raise(r, e) ==
    [r EXCEPT !.pc = "close", !.exc = e, !.res = "none", !.ended = "none"]

\* A for loop without its try/except: the failure of a record ends the cycle.
AbortsBatch(r) == Raise(r, "error")

\* `except Exception as e: logger.error(...); continue` of the for loop: the
\* record is given up and the loop moves on.
SkipRecord(r) == NextRecord([r EXCEPT !.clean = FALSE])

\* A for loop whose handler also catches CancelledError: the record is given
\* up and the loop moves on.
CancelSwallowed(r) == SkipRecord([r EXCEPT !.cancel = FALSE])

\* CancelledError unwinds the cycle of r: only the finally is left to run.
Unwind(r) == [FreeTask EXCEPT !.st = "active", !.pc = "close",
                              !.exc = "cancelled"]

\* ---------------------------------------------------- scheduler interface

Call(op, ret) == [op |-> op, ret |-> ret]

Rets == {"true", "false"}

\* start_fetcher without its test of the handle.
NoLiveHandleUnchecked == TRUE

\* `_fetcher_task is None or _fetcher_task.done()`
NoLiveHandle == fetcher_task = None \/ TaskDone(fetcher_task)

\* Slots create_task may use: never used, or finished and no longer referenced.
Reusable(t) == \/ tasks[t].st = "free"
               \/ tasks[t].st = "done" /\ t # fetcher_task

\* What get_fetcher_status() returns in the current state.
get_fetcher_status ==
    IF fetcher_task = None THEN "stopped"
    ELSE IF TaskDone(fetcher_task) THEN "stopped"
    ELSE IF fetcher_running THEN "running"
    ELSE "stopping"

\* start_fetcher() returning ret: create the loop task (it runs later) and
\* return True, or return False when the handle names a task that is not done.
start_fetcher(ret) ==
    /\ IF NoLiveHandle
       THEN /\ \E t \in TaskIds :
                 /\ Reusable(t)
                 /\ \A u \in TaskIds : Reusable(u) => t <= u
                 /\ tasks' = [tasks EXCEPT ![t] = [FreeTask EXCEPT !.st = "pending"]]
                 /\ fetcher_task' = t
            /\ ret = "true"
       ELSE /\ UNCHANGED <<tasks, fetcher_task>>
            /\ ret = "false"
    /\ UNCHANGED <<fetcher_running, store, orphans, source, max_posts_per_fetch>>

\* stop_fetcher() returning ret: clear the flag, request cancellation, drop
\* the handle; or return False when there is no live task.
stop_fetcher(ret) ==
    /\ IF fetcher_task # None /\ ~TaskDone(fetcher_task)
       THEN /\ fetcher_running' = FALSE
            /\ tasks' = [tasks EXCEPT ![fetcher_task].cancel = TRUE]
            /\ fetcher_task' = None
            /\ ret = "true"
       ELSE /\ UNCHANGED <<fetcher_running, tasks, fetcher_task>>
            /\ ret = "false"
    /\ UNCHANGED <<store, orphans, source, max_posts_per_fetch>>

\* GET /fetcher/start and /fetcher/stop, the answer not looked at.
Start == \E ret \in Rets : start_fetcher(ret) /\ UNCHANGED <<lastCall, Env>>

Stop == \E ret \in Rets : stop_fetcher(ret) /\ UNCHANGED <<lastCall, Env>>

\* The same calls and GET /fetcher/status made by a client that logs the
\* answer of its last call.
StartCall ==
    \E ret \in Rets : start_fetcher(ret) /\ lastCall' = Call("start", ret) /\ UNCHANGED Env

StopCall ==
    \E ret \in Rets : stop_fetcher(ret) /\ lastCall' = Call("stop", ret) /\ UNCHANGED Env

StatusCall ==
    /\ lastCall' = Call("status", get_fetcher_status)
    /\ UNCHANGED <<fetcher_task, fetcher_running, tasks, store, orphans, source,
                   max_posts_per_fetch, Env>>

\* --------------------------------------------------- steps of a loop task

\* A stop that only clears the flag: the task goes on until it tests it.
RunsUncancelled(t, pc) == tasks[t].st = "active" /\ tasks[t].pc = pc

\* A task runs its code only while no cancellation is pending: once cancel()
\* was called the next thing the task sees is CancelledError.
Runs(t, pc) == /\ tasks[t].st = "active"
               /\ ~tasks[t].cancel
               /\ tasks[t].pc = pc

Scheduler == <<fetcher_task, lastCall>>
World == <<store, orphans, source, max_posts_per_fetch, Env>>

\* A task that cancel() was called on and that has not yet seen its
\* CancelledError.
CancelPending(t) == Alive(t) /\ tasks[t].cancel

\* The event loop enters _periodic_fetcher(): the flag is set, the while test
\* passes and the first cycle starts, up to its first await.  The loop runs
\* its ready callbacks in the order they were scheduled: the wake-up cancel()
\* scheduled for an older task comes before the first step of this one.
Begin(t) ==
    /\ tasks[t].st = "pending" /\ ~tasks[t].cancel
    /\ \A u \in TaskIds : ~CancelPending(u)
    /\ fetcher_running' = TRUE
    /\ tasks' = [tasks EXCEPT ![t] = LoopTest(t, [@ EXCEPT !.st = "active"], TRUE)]
    /\ UNCHANGED <<Scheduler, World>>

\* await self._fetch_posts() is over: with the list (ok), or with the
\* exception of raise_for_status() or of the transport.
PostsFetched(t, ok) ==
    /\ Runs(t, "posts")
    /\ tasks' = [tasks EXCEPT ![t] =
                   IF ok THEN [@ EXCEPT !.all_posts = source, !.pc = "existing"]
                   ELSE Raise(@, "error")]
    /\ UNCHANGED <<fetcher_running, Scheduler, World>>

\* await self._fetch_posts(): the list, or UpstreamUnavailable.
FetchPosts(t) == \E ok \in BOOLEAN : PostsFetched(t, ok)

\* await self._get_existing_post_ids(), then the filter, the slice and the
\* start of the for loop; or the query fails.
ExistingFetched(t, ok) ==
    /\ Runs(t, "existing")
    /\ tasks' = [tasks EXCEPT ![t] =
                   IF ok THEN NextRecord([@ EXCEPT !.existing_ids = StoredIds(store)])
                   ELSE Raise(@, "error")]
    /\ UNCHANGED <<fetcher_running, Scheduler, World>>

GetExisting(t) == \E ok \in BOOLEAN : ExistingFetched(t, ok)

\* await self._fetch_comments_for_post(id) and _transform_post_data: on
\* success insert_one is sent; on failure the record is skipped.
CommentsFetched(t, ok) ==
    /\ Runs(t, "comments")
    /\ tasks' = [tasks EXCEPT ![t] =
                   IF ok THEN [@ EXCEPT !.pc = "save"] ELSE SkipRecord(@)]
    /\ UNCHANGED <<fetcher_running, Scheduler, World>>

FetchComments(t) == \E ok \in BOOLEAN : CommentsFetched(t, ok)

\* The store executes the insert_one the task sent (the task may have been
\* asked to cancel meanwhile: the request is already on the wire).
InsertLands(t) ==
    /\ tasks[t].st = "active" /\ tasks[t].pc = "save"
    /\ LET id == ToProcess(tasks[t])[tasks[t].idx] IN
         /\ store' = insert_one(store, id)
         /\ tasks' = [tasks EXCEPT ![t].pc = "saved",
                                   ![t].res = IF DuplicateKey(store, id)
                                              THEN "dup" ELSE "ok"]
    /\ UNCHANGED <<fetcher_running, Scheduler, orphans, source, max_posts_per_fetch, Env>>

\* await self._save_post(post_model) returns or raises DuplicateKeyError,
\* which `except Exception` of the for loop logs.
SaveReturns(t) ==
    /\ Runs(t, "saved")
    /\ LET r == tasks[t] IN
       tasks' = [tasks EXCEPT ![t] =
                   IF r.res = "ok"
                   THEN NextRecord([r EXCEPT
                            !.stored_count = r.stored_count + 1,
                            !.inserted = Append(r.inserted, ToProcess(r)[r.idx])])
                   ELSE SkipRecord([r EXCEPT !.lost = TRUE])]
    /\ UNCHANGED <<fetcher_running, Scheduler, World>>

\* The task sleeps between two cycles: the cycle's frame and locals are gone.
Asleep(r) ==
    [FreeTask EXCEPT !.st = "active", !.pc = "sleep",
                     !.ended = r.ended, !.full = r.full]

\* A loop that starts the next cycle at once, without the sleep.
AfterCycleNoSleep(t, r, running) == LoopTest(t, r, running)

\* What follows a cycle in _periodic_fetcher: `if _fetcher_running: await
\* asyncio.sleep(interval)`, else the while test again.
AfterCycle(t, r, running) ==
    IF running THEN Asleep(r) ELSE LoopTest(t, r, running)

\* A loop without the try/except around the cycle: the error ends the task.
Uncaught(t, r, running) == Finished(t)

\* `except Exception as e: logger.error(...)` of _periodic_fetcher: the cycle
\* is over, failed, and the loop goes on.
Caught(t, r, running) ==
    AfterCycle(t, [r EXCEPT !.ended = "err", !.exc = "none", !.full = FALSE],
               running)

\* await fetcher.close() is over: the summary is returned, or the exception
\* reaches `except Exception` of the loop; a CancelledError ends the task.
CloseReturns(t) ==
    /\ Runs(t, "close")
    /\ LET r == tasks[t] IN
       tasks' = [tasks EXCEPT ![t] =
                   IF r.exc = "cancelled" THEN Finished(t)
                   ELSE IF r.exc = "error" THEN Caught(t, r, fetcher_running)
                   ELSE AfterCycle(t, [r EXCEPT !.ended = "ok",
                                                !.full = AllStored(r.all_posts, store)],
                                   fetcher_running)]
    /\ UNCHANGED <<fetcher_running, Scheduler, World>>

\* asyncio.sleep(interval) is over: the while test, then the next cycle.
Wake(t) ==
    /\ Runs(t, "sleep")
    /\ tasks' = [tasks EXCEPT ![t] = LoopTest(t, @, fetcher_running)]
    /\ UNCHANGED <<fetcher_running, Scheduler, World>>

\* CancelledError is thrown into the task at its await.  It is no Exception:
\* neither the for loop's handler nor the while loop's catches it.  Inside a
\* cycle the finally of fetch_and_store_posts still awaits close(); an
\* insert_one already sent stays on the wire or was never written.
Cancelled(t) ==
    /\ CancelPending(t)
    /\ LET r == tasks[t] IN
       \E sent \in BOOLEAN :
         /\ (r.pc # "save") => sent
         /\ orphans' = IF r.pc = "save" /\ sent
                       THEN orphans \cup {ToProcess(r)[r.idx]} ELSE orphans
         /\ tasks' = [tasks EXCEPT ![t] =
                        IF r.pc \in MidCycle THEN Unwind(r) ELSE Finished(t)]
    /\ UNCHANGED <<fetcher_running, Scheduler, store, source, max_posts_per_fetch, Env>>

\* An insert_one left on the wire by a cancelled task reaches the store.
OrphanLands(id) ==
    /\ id \in orphans
    /\ orphans' = orphans \ {id}
    /\ store' = insert_one(store, id)
    /\ UNCHANGED <<fetcher_running, Scheduler, tasks, source, max_posts_per_fetch, Env>>

\* ------------------------------------------------ requests on the store

\* An update that writes the whole document anew: its comments are gone.
replace_one(s, id, body, now) ==
    [i \in 1..Len(s) |->
        IF s[i].post_id = id
        THEN [s[i] EXCEPT !.body = body, !.updated_at = now, !.comments = <<>>]
        ELSE s[i]]

\* update_one({"post_id": id}, {"$set": {"body": body, "updated_at": now}})
\* changes the first document the filter matches: its two fields are set.
update_one_set(s, id, body, now) ==
    IF \E i \in 1..Len(s) : s[i].post_id = id
    THEN LET i == CHOOSE k \in 1..Len(s) :
                    /\ s[k].post_id = id
                    /\ \A j \in 1..(k - 1) : s[j].post_id # id
         IN [s EXCEPT ![i].body = body, ![i].updated_at = now]
    ELSE s

\* result.modified_count: the documents the update left different (a $set of
\* the values a document holds already modifies nothing).
modified_count(s, id, body, now) ==
    Cardinality({i \in 1..Len(s) : update_one_set(s, id, body, now)[i] # s[i]})

\* PostService.update_post_body as the loops and their properties see it:
\* some body, at some time.
update_one(s, id) == update_one_set(s, id, "edit", 1)

update_post_body(id) ==
    /\ store' = update_one(store, id)
    /\ UNCHANGED <<fetcher_running, Scheduler, tasks, orphans, source,
                   max_posts_per_fetch, Env>>

\* GET /mongo/clear: delete_many({}); the indexes stay.
clear_all_data ==
    /\ store # <<>>
    /\ store' = <<>>
    /\ UNCHANGED <<fetcher_running, Scheduler, tasks, orphans, source,
                   max_posts_per_fetch, Env>>

\* ------------------------------------------------------- specifications

\* database_manager: _database and _is_connected, and whether the posts
\* collection has its unique index on post_id.  Before connect():
NotConnected == [database |-> FALSE, is_connected |-> FALSE, unique_index |-> FALSE]

\* database_manager after a connect() that went through.
Connected == [database |-> TRUE, is_connected |-> TRUE, unique_index |-> TRUE]

\* The application after its startup: connected, the index in place, serving
\* requests; no record is known to fail for good.
Serving ==
    /\ lifespan = "serving"
    /\ db = Connected
    /\ failing = {}

\* Module state of background_tasks.py after import.
InitScheduler ==
    /\ fetcher_task = None
    /\ fetcher_running = FALSE
    /\ tasks = [t \in TaskIds |-> FreeTask]
    /\ orphans = {}
    /\ lastCall = Call("none", "none")
    /\ clock = 0

\* The first n records of the external source: ids 1, 2, ... (an id comes
\* back once the source has more records than ids).
Feed(n) == [i \in 1..n |-> ((i - 1) % MaxId) + 1]

\* An empty collection after connect(), an external source and a cap.
Init ==
    /\ InitScheduler
    /\ Serving
    /\ store = <<>>
    /\ source \in {Feed(n) : n \in 0..MaxLen}
    /\ max_posts_per_fetch \in Caps

\* The steps of a loop task nobody cancels.
CycleStep(t) ==
    \/ Begin(t)
    \/ FetchPosts(t)
    \/ GetExisting(t)
    \/ FetchComments(t)
    \/ InsertLands(t)
    \/ SaveReturns(t)
    \/ CloseReturns(t)
    \/ Wake(t)

TaskStep(t) == CycleStep(t) \/ Cancelled(t)

\* The scheduler's endpoints, the loop tasks they create and cancel, and the
\* store they write to while clients edit it.
Next ==
    \/ Start
    \/ Stop
    \/ \E t \in TaskIds : TaskStep(t)
    \/ \E id \in PostIds : OrphanLands(id)
    \/ \E id \in PostIds : update_post_body(id)

Spec == Init /\ [][Next]_vars

\* ----------------------------------------------------------- properties

\* stop_fetcher() cancelled task t and it has not terminated: its
\* CancelledError is pending, or is unwinding its cycle.
Stopping(t) == Alive(t) /\ (tasks[t].cancel \/ tasks[t].exc = "cancelled")

\* Task t itself takes a step (stop_fetcher only marks it cancelled).
Steps(t) == tasks'[t] # tasks[t] /\ tasks'[t].cancel = tasks[t].cancel

Occurrences(seq, x) == Cardinality({i \in 1..Len(seq) : seq[i] = x})

StoreUnique ==
    \A i, j \in 1..Len(store) : store[i].post_id = store[j].post_id => i = j

\* The answer of an insert_one: DuplicateKeyError exactly when the id was
\* stored, the collection then unchanged; afterwards one document has the id.
InsertAnswered(t) ==
    (tasks[t].pc = "save" /\ tasks'[t].pc = "saved") =>
        LET id == ToProcess(tasks[t])[tasks[t].idx] IN
        /\ (tasks'[t].res = "dup") <=> (id \in StoredIds(store))
        /\ (tasks'[t].res = "dup") => store' = store
        /\ Cardinality({i \in 1..Len(store') : store'[i].post_id = id}) = 1

\* A task told of a lost race goes on with its cycle: to the next record, or
\* to the summary and the return.
LoserGoesOn(t) ==
    (Runs(t, "saved") /\ tasks[t].res = "dup" /\ Steps(t)) =>
        /\ tasks'[t].st = "active"
        /\ tasks'[t].lost
        /\ tasks'[t].stored_count = tasks[t].stored_count
        /\ \/ tasks'[t].pc = "comments" /\ tasks'[t].idx = tasks[t].idx + 1
           \/ /\ tasks'[t].pc = "close" /\ tasks'[t].exc = "none"
              /\ tasks'[t].summary # NoSummary

\* A cycle that lost a race and got past its last record has returned its
\* summary: no exception travels through the finally.
LoserReturned(t) ==
    (tasks[t].lost /\ tasks[t].pc = "close") =>
        /\ tasks[t].exc = "none"
        /\ tasks[t].summary =
               Summary(tasks[t].all_posts, tasks[t].existing_ids, tasks[t].stored_count)

\* ... and the loop takes it as a cycle that went well.
LoserEndsOk(t) ==
    (Runs(t, "close") /\ tasks[t].lost /\ Steps(t)) =>
        (tasks'[t].pc = "sleep" /\ tasks'[t].ended = "ok")

\* C1: under every interleaving of cycles, edits and inserts left on the
\* wire, no two stored documents share a post_id; an insert racing one for
\* the same post_id is answered DuplicateKey and leaves exactly one document;
\* the cycle that lost goes on to its end and returns its summary.
C1_RaceSafe ==
    /\ []StoreUnique
    /\ [](\A t \in TaskIds : LoserReturned(t))
    /\ [][\A t \in TaskIds :
            InsertAnswered(t) /\ LoserGoesOn(t) /\ LoserEndsOk(t)]_vars

\* A cycle whose candidate list names every id once lost an insert race to
\* another writer, went on and returned its summary.
C1_Witness ==
    \E t \in TaskIds :
        /\ Runs(t, "close") /\ tasks[t].lost /\ tasks[t].exc = "none"
        /\ tasks[t].summary # NoSummary
        /\ \A id \in PostIds : Occurrences(tasks[t].all_posts, id) <= 1
        /\ Len(store) >= 1

\* The scheduler's endpoints called by one client that logs each answer,
\* over a source of two records.
InitCalls ==
    /\ InitScheduler
    /\ Serving
    /\ store = <<>>
    /\ source = <<1, 2>>
    /\ max_posts_per_fetch = 1

NextCalls ==
    \/ StartCall
    \/ StopCall
    \/ StatusCall
    \/ \E t \in TaskIds : TaskStep(t)
    \/ \E id \in PostIds : OrphanLands(id)

SpecCalls == InitCalls /\ [][NextCalls]_vars

\* start() right after a start() that returned true returns false.
C2_SecondStartFalse ==
    (StartCall /\ lastCall = Call("start", "true")) => lastCall'.ret = "false"

\* status() right after the second start() reports running.
C2_StatusRunning ==
    (StatusCall /\ lastCall = Call("start", "false")) => lastCall'.ret = "running"

\* stop() then returns true.
C2_StopTrue ==
    (StopCall /\ lastCall = Call("status", "running")) => lastCall'.ret = "true"

\* status() right after that stop() reports stopped.
C2_StatusStopped ==
    (StatusCall /\ lastCall = Call("stop", "true")) => lastCall'.ret = "stopped"

\* start() then returns true again.
C2_StartAgain ==
    (StartCall /\ lastCall = Call("status", "stopped")) => lastCall'.ret = "true"

\* C2: from Stopped, start() returns true and the start() right after it
\* false; status() after the second start() reports running; the stop() that
\* follows returns true and status() then reports stopped; the next start()
\* returns true again.
C2_CallSequence ==
    [][/\ C2_SecondStartFalse
       /\ C2_StatusRunning
       /\ C2_StopTrue
       /\ C2_StatusStopped
       /\ C2_StartAgain]_vars

\* The parts of C2 the code does keep: everything but the status after start.
C2_OtherCalls ==
    [][/\ C2_SecondStartFalse
       /\ C2_StopTrue
       /\ C2_StatusStopped
       /\ C2_StartAgain]_vars

\* The loop tasks created and not yet terminated.
AliveTasks == {t \in TaskIds : Alive(t)}

\* The loop tasks that stop_fetcher() has not cancelled.
LoopTasks == {t \in TaskIds : Alive(t) /\ ~Stopping(t)}

\* A task appears only through a start() made with no live handle, and the
\* handle then names it.
CreatedByStart(t) ==
    (~Alive(t) /\ Alive(t)') => (NoLiveHandle /\ fetcher_task' = t)

\* With a live handle start() can only return false, changing nothing.
StartRefused ==
    ~NoLiveHandle => /\ ~ENABLED start_fetcher("true")
                     /\ ENABLED start_fetcher("false")

\* C3 as stated: at most one loop task is created and not yet terminated at
\* any moment, and start() while a loop runs creates none and returns false.
C3_Original ==
    /\ [](Cardinality(AliveTasks) <= 1)
    /\ []StartRefused
    /\ [][\A t \in TaskIds : CreatedByStart(t)]_vars

\* C3, amended: at most one loop task that stop() has not cancelled is alive,
\* and it is the one the handle names; a cancelled task may still be on its
\* way out when start() creates the next; start() while the handle names a
\* live task creates none and returns false.
C3_OneLoop ==
    /\ [](Cardinality(LoopTasks) <= 1)
    /\ [](\A t \in LoopTasks : fetcher_task = t)
    /\ []StartRefused
    /\ [][\A t \in TaskIds : CreatedByStart(t)]_vars

\* A cancelled task on its way out beside the task a later start() created,
\* and start() now refused.
C3_Witness ==
    \E t, u \in TaskIds :
        /\ Stopping(t)
        /\ u \in LoopTasks /\ tasks[u].st = "active"
        /\ ~NoLiveHandle

\* C4: status() reports stopping only where stop() has signalled cancellation
\* and the loop task has not yet terminated; otherwise running (a loop is
\* active and not asked to stop) or stopped (no live loop).
C4_StatusMeaning ==
    /\ get_fetcher_status = "stopping" => \E t \in TaskIds : Stopping(t)
    /\ get_fetcher_status = "running" => LoopTasks # {}
    /\ get_fetcher_status = "stopped" => AliveTasks = {}

\* What the code's status() does mean: stopping is the time between start()
\* and the first step of the task it created; stopped says only that the
\* handle is empty.
C4_StatusInCode ==
    /\ get_fetcher_status = "stopping" <=>
           (fetcher_task # None /\ tasks[fetcher_task].st = "pending")
    /\ get_fetcher_status = "running" <=>
           (fetcher_task # None /\ tasks[fetcher_task].st = "active")
    /\ get_fetcher_status = "stopped" <=> fetcher_task = None

\* stop() found task t inside a cycle that had work left, and t still lives.
StoppedMidCycle(t) ==
    Stopping(t) /\ (tasks[t].pc \in MidCycle \/ tasks[t].exc = "cancelled")

\* C5 as stated: a cycle in progress when stop() is called runs to its end,
\* and only then the loop sees the flag and exits.
C5_Original ==
    [][\A t \in TaskIds :
         (StoppedMidCycle(t) /\ ~Alive(t)') =>
             (tasks[t].pc = "close" /\ tasks[t].exc \in {"none", "error"})]_vars

\* The steps left to a task stop() found inside a cycle: an insert_one it
\* had sent lands, CancelledError unwinds the cycle, the task ends after the
\* close() of the finally.
StoppedSteps(t) ==
    (StoppedMidCycle(t) /\ tasks'[t] # tasks[t]) =>
        \/ /\ tasks[t].pc = "save"
           /\ tasks'[t] = [tasks[t] EXCEPT !.pc = "saved", !.res = tasks'[t].res]
        \/ /\ tasks[t].cancel
           /\ tasks'[t] = Unwind(tasks[t])
           /\ store' = store
        \/ /\ tasks[t].exc = "cancelled"
           /\ ~Alive(t)'
           /\ store' = store

\* C5, amended: a cycle in progress when stop() is called is interrupted at
\* the await it is suspended on: it begins no further record and counts no
\* further insert (one already sent may land), only the close() of the
\* finally runs, and the task ends without sleeping or starting a cycle.
C5_Interrupted ==
    /\ [](\A t \in TaskIds : StoppedMidCycle(t) => tasks[t].pc \in CyclePcs)
    /\ [][\A t \in TaskIds : StoppedSteps(t)]_vars

\* stop() found a task inside a cycle that had stored a record and had
\* another to go: CancelledError unwinds it, the other record not begun.
C5_Witness ==
    \E t \in TaskIds :
        /\ Alive(t) /\ tasks[t].exc = "cancelled"
        /\ Len(source) >= 2 /\ Len(store) = 1
        /\ fetcher_task = None /\ orphans = {}

\* Task t's own step takes it into a new cycle / into the sleep.
EntersCycle(t) == Steps(t) /\ tasks'[t].pc = "posts"

EntersSleep(t) == Steps(t) /\ tasks'[t].pc = "sleep"

\* The cycles running loops are inside of.
OpenCycles == {t \in LoopTasks : tasks[t].pc \in CyclePcs}

\* C6: the cycles of a running loop never overlap: the sleep is armed only
\* when the current cycle has completed (returned or failed, its close()
\* over), the next cycle starts only out of that sleep, and no two cycles of
\* running loops are open at once.
C6_NoOverlap ==
    /\ [](Cardinality(OpenCycles) <= 1)
    /\ [](\A t \in TaskIds : tasks[t].pc = "sleep" => tasks[t].ended \in {"ok", "err"})
    /\ [][\A t \in TaskIds :
            /\ EntersSleep(t) => (tasks[t].pc = "close" /\ tasks'[t].ended \in {"ok", "err"})
            /\ EntersCycle(t) => (tasks[t].st = "pending" \/ tasks[t].pc = "sleep")]_vars

\* A loop sleeping after a cycle that stored a record.
C6_Witness ==
    \E t \in LoopTasks :
        /\ tasks[t].pc = "sleep"
        /\ tasks[t].ended = "ok"
        /\ Len(store) >= 1

\* A running loop is never stuck and never over: some step of it is enabled.
GoesOn(t) == (t \in LoopTasks /\ tasks[t].st = "active") => ENABLED TaskStep(t)

\* C7: a started loop runs a cycle before any sleep; while stop() is not
\* called every finished cycle, returned or failed, is followed by the
\* sleep and the sleep by another cycle, and the loop never ends.
C7_Forever ==
    /\ [](\A t \in TaskIds : GoesOn(t))
    /\ [][\A t \in TaskIds :
            /\ (tasks[t].st = "pending" /\ Steps(t)) => tasks'[t].pc = "posts"
            /\ (Runs(t, "close") /\ tasks[t].exc # "cancelled" /\ Steps(t)) =>
                   (tasks'[t].pc = "sleep" /\ tasks'[t].ended \in {"ok", "err"})
            /\ (Runs(t, "sleep") /\ Steps(t)) => tasks'[t].pc = "posts"
            /\ (Alive(t) /\ ~Alive(t)') => Stopping(t)]_vars

\* A loop nobody stopped, asleep after a cycle that returned its summary.
C7_Witness ==
    \E t \in LoopTasks :
        /\ tasks[t].pc = "sleep"
        /\ tasks[t].ended = "ok"
        /\ get_fetcher_status = "running"

\* A cycle fails as a whole only at the listing or at the query for the
\* stored ids, before any record: it has stored nothing.
FailsEmpty(t) ==
    tasks[t].exc = "error" =>
        /\ tasks[t].idx = 0 /\ tasks[t].stored_count = 0
        /\ tasks[t].inserted = <<>>

\* The failure of a whole cycle stays inside the loop.
FailureCaught(t) ==
    /\ (Runs(t, "posts") \/ Runs(t, "existing")) /\ Steps(t) /\ tasks'[t].exc = "error"
           => (store' = store /\ tasks'[t].pc = "close")
    /\ (Runs(t, "close") /\ tasks[t].exc = "error" /\ Steps(t))
           => /\ Alive(t)'
              /\ tasks'[t].pc = "sleep" /\ tasks'[t].ended = "err"
              /\ get_fetcher_status = "running" /\ get_fetcher_status' = "running"
    /\ (Runs(t, "sleep") /\ tasks[t].ended = "err" /\ Steps(t))
           => tasks'[t].pc = "posts"

\* C8: a cycle that fails as a whole (the listing or the query for the stored
\* ids raises) stores nothing, the error does not leave the loop, the
\* scheduler stays running and the next cycle starts after the sleep.
C8_CycleFailure ==
    /\ [](\A t \in TaskIds : FailsEmpty(t))
    /\ [][\A t \in TaskIds : FailureCaught(t)]_vars

\* A running loop asleep after a failed cycle.
C8_Witness ==
    \E t \in LoopTasks :
        /\ tasks[t].pc = "sleep"
        /\ tasks[t].ended = "err"
        /\ get_fetcher_status = "running"

\* ------------------------------------------------------ ingestion cycles

\* The collections that hold one document for each id of a set.
StoresOf(ids) ==
    {s \in [1..Cardinality(ids) -> {NewDoc(id) : id \in ids}] :
        \A i, j \in 1..Len(s) : i < j => s[i].post_id < s[j].post_id}

CyclePostIds == 1..MaxCycleId

\* Caps from a negative one up to the longest candidate list.
CycleCaps == -1..MaxCycleLen

\* One loop, never stopped, over any candidate list, any cap and a store
\* that holds any of the ids.
InitCycle ==
    /\ InitScheduler
    /\ Serving
    /\ store \in UNION {StoresOf(ids) : ids \in SUBSET CyclePostIds}
    /\ source \in SeqsUpTo(CyclePostIds, MaxCycleLen)
    /\ max_posts_per_fetch \in CycleCaps

\* The loop's cycles, and a client that wipes the collection.
NextCycle ==
    \/ Start
    \/ \E t \in TaskIds : CycleStep(t)
    \/ clear_all_data

SpecCycle == InitCycle /\ [][NextCycle]_vars

\* The candidates of list C whose id is not in E, in the order of C, written
\* position by position.
NotIn(C, E) ==
    LET keep == {i \in 1..Len(C) : C[i] \notin E}
        nth(k) == CHOOSE i \in keep : Cardinality({j \in keep : j < i}) = k - 1
    IN  [k \in 1..Cardinality(keep) |-> C[nth(k)]]

\* The cycle of task t has returned its summary; every child fetch and every
\* insert of it succeeded.
ReturnedClean(t) ==
    /\ tasks[t].pc = "close" /\ tasks[t].exc = "none"
    /\ tasks[t].clean

\* C9: for a candidate list C and a snapshot E of the stored ids, a cycle
\* whose child fetches and inserts all succeed, under a cap of at least the
\* number of new records, stores exactly the candidates whose id is not in E,
\* in the order of C, and reports total_fetched = |C| and skipped_posts = the
\* number of candidates whose id is in E.
C9_Dedup ==
    \A t \in TaskIds :
        LET C == tasks[t].all_posts
            E == tasks[t].existing_ids
        IN  (ReturnedClean(t) /\ max_posts_per_fetch >= Len(NotIn(C, E))) =>
                /\ C = source
                /\ tasks[t].inserted = NotIn(C, E)
                /\ tasks[t].summary.total_fetched = Len(C)
                /\ tasks[t].summary.new_posts = Len(NotIn(C, E))
                /\ tasks[t].summary.skipped_posts =
                       Cardinality({i \in 1..Len(C) : C[i] \in E})

\* The cycle over candidates 3, 2, 1 with 2 stored before: 3 then 1 are
\* inserted, one candidate is skipped.
C9_Witness ==
    \E t \in TaskIds :
        /\ ReturnedClean(t)
        /\ tasks[t].all_posts = <<3, 2, 1>> /\ tasks[t].existing_ids = {2}
        /\ max_posts_per_fetch = 2
        /\ tasks[t].inserted = <<3, 1>>
        /\ tasks[t].summary.skipped_posts = 1

\* The first n elements of s; none when n is not positive.
FirstN(s, n) == SubSeq(s, 1, Min(Max(n, 0), Len(s)))

IsPrefix(s, w) == Len(s) <= Len(w) /\ s = SubSeq(w, 1, Len(s))

\* The cycle of task t has its batch: it is at a record, or past the last.
HasBatch(t) ==
    \/ tasks[t].pc \in {"comments", "save", "saved"}
    \/ tasks[t].pc = "close" /\ tasks[t].exc = "none"

\* The records a cycle has begun are among the first cap new ones, in source
\* order, and it has stored at most cap of them.
WithinCap(t) ==
    LET new == NotIn(tasks[t].all_posts, tasks[t].existing_ids)
    IN  HasBatch(t) =>
            /\ IsPrefix(Attempted(tasks[t]), FirstN(new, max_posts_per_fetch))
            /\ Len(tasks[t].inserted) <= Max(max_posts_per_fetch, 0)
            /\ tasks[t].stored_count = Len(tasks[t].inserted)

\* C10: for every configured cap a cycle attempts only the first cap new
\* records in source order and so stores at most cap records; the new records
\* beyond the cap are not touched.
C10_CapRespected == \A t \in TaskIds : WithinCap(t)

\* What holds of the code: the same for the caps that are not negative.
C10_CapNotNegative ==
    max_posts_per_fetch >= 0 => \A t \in TaskIds : WithinCap(t)

\* ------------------------------------------------- cycles in succession

\* The cycle of task t takes its snapshot and gets its batch (the query for
\* the stored ids does not fail).
GetsBatch(t) == Runs(t, "existing") /\ Steps(t) /\ tasks'[t].exc = "none"

\* The cycle finds no new candidate: it goes straight to its summary, which
\* reports zero stored records.
StoresZero(r) ==
    /\ r.pc = "close" /\ r.exc = "none"
    /\ r.inserted = <<>>
    /\ r.summary.new_posts = 0

\* C11 as stated: the cycle that follows a cycle which returned, the source
\* unchanged, stores zero new records: all candidates exist already.
C11_Original ==
    [][\A t \in TaskIds :
         (GetsBatch(t) /\ tasks[t].ended = "ok") => StoresZero(tasks'[t])]_vars

\* A cycle without a failed record and with a cap of at least the number of
\* its new records leaves every candidate stored.
CleanRunIsFull(t) ==
    (ReturnedClean(t) /\ max_posts_per_fetch >=
         Len(NotIn(tasks[t].all_posts, tasks[t].existing_ids)))
        => AllStored(tasks[t].all_posts, store)

\* C11, amended: when the first cycle left every candidate stored (it does
\* when none of its records failed and the cap was at least the number of
\* new records), the cycle that follows it, the source unchanged and nothing
\* wiped, stores zero records; a cap or a failure that left candidates
\* unstored leaves them to the cycles that follow.
C11_SecondRunZero ==
    /\ [](\A t \in TaskIds : CleanRunIsFull(t))
    /\ [](\A t \in TaskIds :
            (tasks[t].full /\ tasks[t].pc \in {"comments", "save", "saved", "close"})
                => (tasks[t].exc = "none" => StoresZero(tasks[t])))
    /\ [][\A t \in TaskIds :
            (GetsBatch(t) /\ tasks[t].full) => StoresZero(tasks'[t])]_vars

\* The second of two cycles over two candidates, both stored by the first,
\* has returned: zero records stored.
C11_Witness ==
    \E t \in TaskIds :
        /\ Runs(t, "close") /\ tasks[t].full
        /\ StoresZero(tasks[t])
        /\ Len(tasks[t].all_posts) = 2 /\ Len(store) = 2
        /\ tasks[t].summary.skipped_posts = 2

\* ------------------------------------------------------ failing records

\* The record the cycle of task t is at fails: its comments do not arrive or
\* its fields do not pass, or its insert is answered DuplicateKeyError.
RecordFails(t) ==
    /\ Steps(t)
    /\ \/ Runs(t, "comments") /\ tasks'[t].pc # "save"
       \/ Runs(t, "saved") /\ tasks[t].res = "dup"

\* Only that record is given up: nothing stored is touched, no exception
\* leaves the cycle, and the cycle is at its next record or, after the last,
\* at its summary.
OnlySkipped(t) ==
    LET r == tasks[t] IN
    /\ store' = store
    /\ tasks'[t].inserted = r.inserted
    /\ tasks'[t].stored_count = r.stored_count
    /\ tasks'[t].st = "active" /\ tasks'[t].exc = "none"
    /\ IF r.idx < Len(ToProcess(r))
       THEN tasks'[t].pc = "comments" /\ tasks'[t].idx = r.idx + 1
       ELSE /\ tasks'[t].pc = "close"
            /\ tasks'[t].summary =
                   Summary(r.all_posts, r.existing_ids, r.stored_count)

\* A cycle that returns has been at every record of its batch, and counts
\* the records it stored.
BatchDone(t) ==
    (tasks[t].pc = "close" /\ tasks[t].exc = "none") =>
        /\ tasks[t].idx = Len(ToProcess(tasks[t]))
        /\ tasks[t].summary.new_posts = Len(tasks[t].inserted)

\* C12: a record whose child fetch fails or whose insert is answered
\* DuplicateKey is skipped alone: the records after it in the batch are still
\* processed, what the cycle has stored stays stored, and the cycle returns
\* its summary without raising.
C12_SkipOne ==
    /\ [](\A t \in TaskIds : BatchDone(t))
    /\ [][\A t \in TaskIds : RecordFails(t) => OnlySkipped(t)]_vars

\* A cycle over three new records has returned: the second failed, the first
\* and the third are stored.
C12_Witness ==
    \E t \in TaskIds :
        /\ tasks[t].pc = "close" /\ tasks[t].exc = "none"
        /\ ~tasks[t].clean
        /\ ToProcess(tasks[t]) = <<1, 2, 3>>
        /\ tasks[t].inserted = <<1, 3>>
        /\ tasks[t].summary.new_posts = 2
        /\ Len(store) = 2

\* -------------------------------------------------- created exactly once

\* The documents of collection s that carry the id.
Docs(s, id) == {s[i] : i \in {j \in 1..Len(s) : s[j].post_id = id}}

\* A document after update_post_body.
Edited(d) == [d EXCEPT !.body = "edit", !.updated_at = 1]

\* What a step may do to the documents of an id: create the one document of
\* an id that has none, as ingestion writes it; edit the document; nothing
\* else.  A stored id stays stored and an edited document stays as edited.
CreatedOnce(id) ==
    LET before == Docs(store, id)
        after == Docs(store', id)
    IN  /\ before = {} => (after = {} \/ after = {NewDoc(id)})
        /\ before # {} => (after = before \/ after = {Edited(d) : d \in before})
        /\ (\E d \in before : d.body = "edit") => after = before
        /\ Occurrences([i \in 1..Len(store') |-> store'[i].post_id], id) <= 1

\* C13: without a bulk wipe, whatever the cycles, the starts and the stops,
\* each post_id is inserted at most once (its document appears once, when
\* the id has none, and never leaves) and ingestion never rewrites a stored
\* document: a body set by an edit and its updated_at stay in place.
C13_CreatedOnce ==
    [][store' # store => \A id \in PostIds : CreatedOnce(id)]_vars

\* An edited document in the store, and a cycle that came after a cycle
\* which left every candidate stored: it found the id stored and has
\* returned without writing.
C13_Witness ==
    \E t \in TaskIds : \E i \in 1..Len(store) :
        /\ store[i].body = "edit" /\ store[i].updated_at = 1
        /\ Runs(t, "close") /\ tasks[t].full /\ StoresZero(tasks[t])
        /\ store[i].post_id \in tasks[t].existing_ids
        /\ \E k \in 1..Len(tasks[t].all_posts) : tasks[t].all_posts[k] = store[i].post_id

\* ---------------------------------------------------------------- edits

\* A call with its arguments and its answer.
CallOf(op, args, ret) == [op |-> op, args |-> args, ret |-> ret]

EditBodies == {"src", "edit"}
EditTimes == {1, 2}

\* Documents as ingestion and earlier edits left them: with or without
\* comments, edited (updated_at set) or not (updated_at None).
PostDocs(id) ==
    {[post_id |-> id, body |-> "src", updated_at |-> None,
      created_at |-> id, fetched_at |-> id + 1, comments |-> c] :
        c \in {<<>>, <<"c1", "c2">>}}
    \cup
    {[post_id |-> id, body |-> b, updated_at |-> 1,
      created_at |-> id, fetched_at |-> id + 1, comments |-> <<"c1">>] :
        b \in EditBodies}

\* The collections under the unique index: at most one document an id.
EditStores ==
    UNION {{s \in [1..Cardinality(ids) -> UNION {PostDocs(id) : id \in ids}] :
               \A i, j \in 1..Len(s) : i < j => s[i].post_id < s[j].post_id} :
           ids \in SUBSET PostIds}

\* PUT /posts/{post_id}: PostService.update_post_body(post_id, body) at time
\* now, and what it returns.
UpdateCall(id, body, now) ==
    /\ store' = update_one_set(store, id, body, now)
    /\ lastCall' = CallOf("update", <<id, body, now>>,
                          modified_count(store, id, body, now) = 1)
    /\ UNCHANGED <<fetcher_task, fetcher_running, tasks, orphans, source,
                   max_posts_per_fetch, Env>>

\* Any collection, nothing else going on.
InitEdit ==
    /\ InitScheduler
    /\ Serving
    /\ store \in EditStores
    /\ source = <<>>
    /\ max_posts_per_fetch = 10

NextEdit ==
    \E id \in PostIds \cup {MaxId + 1} : \E body \in EditBodies : \E now \in EditTimes :
        UpdateCall(id, body, now)

SpecEdit == InitEdit /\ [][NextEdit]_vars

\* The positions whose document the step changed.
Changed == {i \in 1..Len(store) : i > Len(store') \/ store'[i] # store[i]}

\* The call the step made: update_post_body(id, body) at now, answered ret.
FrameOfUpdate ==
    LET id == lastCall'.args[1]
        body == lastCall'.args[2]
        now == lastCall'.args[3]
        ret == lastCall'.ret
        hit == {i \in 1..Len(store) : store[i].post_id = id}
    IN  /\ Len(store') = Len(store)
        /\ \A i \in 1..Len(store) :
              /\ DOMAIN store'[i] = DOMAIN store[i]
              /\ \A f \in DOMAIN store[i] \ {"body", "updated_at"} :
                    store'[i][f] = store[i][f]
              /\ i \notin hit => store'[i] = store[i]
              /\ i \in hit => (store'[i].body = body /\ store'[i].updated_at = now)
        /\ Cardinality(hit) <= 1
        /\ ret \in BOOLEAN
        /\ ret <=> Cardinality(Changed) = 1
        /\ hit = {} => (ret = FALSE /\ store' = store)

\* C14: update_post_body(post_id, body) sets body and updated_at of the one
\* document with the post_id and leaves its other fields (comments,
\* created_at, fetched_at) and the other documents as they are; it returns
\* true exactly when one document was modified; for a post_id that is not
\* stored it returns false and creates nothing.
C14_UpdateFrame == [][lastCall'.op = "update" => FrameOfUpdate]_vars

\* An edit of the second of two documents, both with comments, answered
\* true: the body and updated_at are the new ones.
C14_Witness ==
    /\ lastCall.op = "update" /\ lastCall.ret = TRUE
    /\ lastCall.args = <<2, "edit", 2>>
    /\ Len(store) = 2
    /\ store[1].body = "src" /\ store[1].comments = <<"c1", "c2">>
    /\ store[2] = [post_id |-> 2, body |-> "edit", updated_at |-> 2,
                   created_at |-> 2, fetched_at |-> 3, comments |-> <<"c1", "c2">>]

\* -------------------------------------------------------------- startup

\* The awaits of DatabaseManager.connect(), in order: the ping, then the
\* three create_index calls of _create_indexes.
ConnectPcs == <<"ping", "index_post_id", "index_created_at", "index_comments_body">>

\* A lifespan that catches the error of connect() and goes on to serve.
ConnectErrorCaught == "serving"

\* connect() raises: the exception leaves lifespan, the application does not
\* come up.
ConnectError == "failed"

\* lifespan is entered: connect() creates the client and awaits the ping.
ConnectBegins ==
    /\ lifespan = "start"
    /\ lifespan' = ConnectPcs[1]
    /\ UNCHANGED <<fetcher_task, fetcher_running, tasks, store, orphans, source,
                   max_posts_per_fetch, lastCall, failing, db, clock>>

\* admin.command('ping') is over: _database and _is_connected are set and
\* _create_indexes awaits its first create_index; or the ping raised.
PingReturns(ok) ==
    /\ lifespan = "ping"
    /\ IF ok
       THEN /\ db' = [db EXCEPT !.database = TRUE, !.is_connected = TRUE]
            /\ lifespan' = "index_post_id"
       ELSE /\ lifespan' = ConnectError
            /\ UNCHANGED db
    /\ UNCHANGED <<fetcher_task, fetcher_running, tasks, store, orphans, source,
                   max_posts_per_fetch, lastCall, failing, clock>>

\* A create_index other than the last is over, or raised.
IndexCreated(ok) ==
    /\ \E k \in 2..3 :
         /\ lifespan = ConnectPcs[k]
         /\ IF ok
            THEN /\ lifespan' = ConnectPcs[k + 1]
                 /\ db' = [db EXCEPT !.unique_index = TRUE]
            ELSE /\ lifespan' = ConnectError
                 /\ UNCHANGED db
    /\ UNCHANGED <<fetcher_task, fetcher_running, tasks, store, orphans, source,
                   max_posts_per_fetch, lastCall, failing, clock>>

\* The last create_index is over: connect() returns, lifespan calls
\* start_fetcher() and yields: the application serves.  Or it raised.
ConnectReturns(ok) ==
    /\ lifespan = "index_comments_body"
    /\ IF ok
       THEN /\ lifespan' = "serving"
            /\ \E ret \in Rets : start_fetcher(ret)
            /\ UNCHANGED <<lastCall, failing, db, clock>>
       ELSE /\ lifespan' = ConnectError
            /\ UNCHANGED <<fetcher_task, fetcher_running, tasks, store, orphans,
                           source, max_posts_per_fetch, lastCall, failing, db, clock>>

\* The application shuts down: lifespan resumes after its yield, calls
\* stop_fetcher() and disconnect().
Shutdown ==
    /\ lifespan = "serving"
    /\ lifespan' = "stopped"
    /\ db' = [db EXCEPT !.database = FALSE, !.is_connected = FALSE]
    /\ \E ret \in Rets : stop_fetcher(ret)
    /\ UNCHANGED <<lastCall, failing, clock>>

\* A request is served while the application is up.
Served(Request) == lifespan = "serving" /\ Request

InitStartup ==
    /\ InitScheduler
    /\ lifespan = "start"
    /\ db = NotConnected
    /\ failing = {}
    /\ store = <<>>
    /\ source = Feed(1)
    /\ max_posts_per_fetch = 10

NextStartup ==
    \/ ConnectBegins
    \/ \E ok \in BOOLEAN : PingReturns(ok)
    \/ \E ok \in BOOLEAN : IndexCreated(ok)
    \/ \E ok \in BOOLEAN : ConnectReturns(ok)
    \/ Served(Start)
    \/ Served(Stop)
    \/ \E t \in TaskIds : TaskStep(t)
    \/ \E id \in PostIds : OrphanLands(id)
    \/ Shutdown

SpecStartup == InitStartup /\ [][NextStartup]_vars

\* start_fetcher() has been called: a loop task exists, or the handle is set.
FetcherStarted ==
    fetcher_task # None \/ \E t \in TaskIds : tasks[t].st # "free"

\* The ping fails: connect() raises, and that is the end of the startup.
PingFailed == lifespan = "ping" /\ lifespan' # "index_post_id" /\ lifespan' # lifespan

\* C15: when the ping of connect() fails, connect() raises, the gateway stays
\* not connected, and the process neither starts the fetcher nor serves; the
\* fetcher is started only after connect(), the unique index on post_id
\* included, has gone through.
C15_StartupGate ==
    /\ [][PingFailed => (lifespan' = "failed" /\ db' = NotConnected)]_vars
    /\ [][lifespan = "failed" => (lifespan' = "failed" /\ db' = db)]_vars
    /\ [](lifespan = "failed" => ~FetcherStarted)
    /\ [](lifespan = "serving" => db = Connected)
    /\ [](FetcherStarted => (lifespan \in {"serving", "stopped"} /\ db.unique_index))
    /\ [][(~FetcherStarted /\ FetcherStarted') =>
             (lifespan' = "serving" /\ db = Connected)]_vars

\* The ping failed: the startup is over, nothing connected, nothing started.
C15_Witness ==
    /\ lifespan = "failed"
    /\ db = NotConnected
    /\ ~FetcherStarted

\* ------------------------------------------------------- generated dates

\* Days a caller may pass: -1, 0 and 1..MaxDays.
MaxDays == 1

\* A datetime counts ticks; a second has TicksPerSecond of them, and a stored
\* datetime (BSON) keeps only every BsonTicks-th tick.
TicksPerSecond == 4
BsonTicks == 2

\* timedelta(days=1).total_seconds()
SecondsPerDay == 86400

\* min_seconds, and the upper end of the fallback draw.
min_seconds == 60
fallback_seconds == 3600

\* The default of generate_comment_date's max_days_after.
max_days_after == 30

Days == -1..MaxDays

\* timedelta(seconds=s) and timedelta(days=d), in ticks.
Seconds(s) == s * TicksPerSecond
DaysDelta(d) == d * SecondsPerDay * TicksPerSecond

\* int(time_diff.total_seconds()) of a difference that is not negative.
total_seconds(diff) == diff \div TicksPerSecond

\* What a call returns or raises.
Returned(t) == [exc |-> "none", value |-> t]
Raised(e) == [exc |-> e, value |-> 0]

\* generate_random_date rejecting only a negative days_back.
generate_random_date_zero_ok(now, days_back) ==
    IF days_back < 0
    THEN {Raised("ValueError")}
    ELSE LET earliest_date == now - DaysDelta(days_back)
         IN  {Returned(earliest_date + Seconds(random_seconds)) :
                  random_seconds \in 0..total_seconds(now - earliest_date)}

\* generate_random_date(days_back) called at time now: every outcome
\* random.randint allows.
generate_random_date(now, days_back) ==
    IF days_back <= 0
    THEN {Raised("ValueError")}
    ELSE LET earliest_date == now - DaysDelta(days_back)
         IN  {Returned(earliest_date + Seconds(random_seconds)) :
                  random_seconds \in 0..total_seconds(now - earliest_date)}

\* generate_comment_date drawing from zero seconds on, with no fallback.
generate_comment_date_from_zero(now, post_created_at, days_after) ==
    IF days_after <= 0 \/ post_created_at > now
    THEN {Raised("ValueError")}
    ELSE LET later == post_created_at + DaysDelta(days_after)
             latest_date == IF later > now THEN now ELSE later
         IN  {Returned(post_created_at + Seconds(random_seconds)) :
                  random_seconds \in 0..total_seconds(latest_date - post_created_at)}

\* generate_comment_date(post_created_at, max_days_after) called at time now.
generate_comment_date(now, post_created_at, days_after) ==
    IF days_after <= 0 \/ post_created_at > now
    THEN {Raised("ValueError")}
    ELSE LET later == post_created_at + DaysDelta(days_after)
             latest_date == IF later > now THEN now ELSE later
             total == total_seconds(latest_date - post_created_at)
             draws == IF total < min_seconds
                      THEN min_seconds..fallback_seconds
                      ELSE min_seconds..total
         IN  {Returned(post_created_at + Seconds(random_seconds)) :
                  random_seconds \in draws}

\* A datetime as the collection keeps it.
Bson(t) == (t \div BsonTicks) * BsonTicks

\* How long before the call the base of a direct call lies, in ticks (-1 is a
\* base in the future): around zero, around one minute, around one day.
BaseAges ==
    {-1, 0, 1,
     Seconds(min_seconds) - 1, Seconds(min_seconds), Seconds(min_seconds) + 1,
     DaysDelta(1), DaysDelta(1) + 1}

\* The ages of a post's date that the transformation is followed for.
PostAges == {0, Seconds(min_seconds - 1), Seconds(min_seconds), Seconds(min_seconds + 1)}

\* Ticks the clock may advance between two reads of it.
MaxDelay == 1

\* A direct call of generate_random_date, the first call of the run.
RandomDateCall(days_back) ==
    /\ lastCall.op = "none"
    /\ \E out \in generate_random_date(clock, days_back) :
         lastCall' = CallOf("generate_random_date", <<clock, days_back>>, out)
    /\ UNCHANGED <<fetcher_task, fetcher_running, tasks, store, orphans, source,
                   max_posts_per_fetch, Env>>

\* A direct call of generate_comment_date on a base that lies age ticks back.
CommentDateCall(age, days_after) ==
    /\ lastCall.op = "none"
    /\ \E out \in generate_comment_date(clock, clock - age, days_after) :
         lastCall' = CallOf("generate_comment_date",
                            <<clock, clock - age, days_after>>, out)
    /\ UNCHANGED <<fetcher_task, fetcher_running, tasks, store, orphans, source,
                   max_posts_per_fetch, Env>>

\* The document _transform_post_data builds and _save_post inserts.
DatedDoc(id, post_created_at, comment_created_at, fetched_at) ==
    [post_id |-> id, body |-> "src", updated_at |-> None,
     created_at |-> Bson(post_created_at), fetched_at |-> Bson(fetched_at),
     comments |-> <<[created_at |-> Bson(comment_created_at)]>>]

\* _transform_post_data and _save_post for a record with one comment, with
\* RANDOM_DATE_RANGE_DAYS = days: the post's date, then (the clock may have
\* moved) the comment's date, then the insert.  A ValueError skips the record.
TransformAndSave(id, days) ==
    /\ lastCall.op = "none"
    /\ store = <<>>
    /\ \E post \in generate_random_date(clock, days), delay \in 0..MaxDelay :
         IF post.exc # "none"
         THEN /\ lastCall' = CallOf("transform", <<clock, days>>, post)
              /\ UNCHANGED <<store, clock>>
         ELSE /\ clock - post.value \in PostAges
              /\ clock' = clock + delay
              /\ \E comment \in generate_comment_date(clock', post.value, max_days_after) :
                   /\ lastCall' = CallOf("transform", <<clock, days>>, comment)
                   /\ IF comment.exc # "none"
                      THEN UNCHANGED store
                      ELSE store' = AddDoc(store, DatedDoc(id, post.value,
                                                          comment.value, clock'))
    /\ UNCHANGED <<fetcher_task, fetcher_running, tasks, orphans, source,
                   max_posts_per_fetch, failing, lifespan, db>>

InitDates ==
    /\ InitScheduler
    /\ Serving
    /\ store = <<>>
    /\ source = <<>>
    /\ max_posts_per_fetch = 10

NextDates ==
    \/ \E days_back \in Days : RandomDateCall(days_back)
    \/ \E age \in BaseAges, days_after \in Days : CommentDateCall(age, days_after)
    \/ \E id \in PostIds, days \in Days : TransformAndSave(id, days)

SpecDates == InitDates /\ [][NextDates]_vars

\* The last call was generate_comment_date on a base not in the future with
\* a positive number of days.
FollowupCalled ==
    /\ lastCall.op = "generate_comment_date"
    /\ lastCall.args[2] <= lastCall.args[1]
    /\ lastCall.args[3] > 0

\* C16: for a base not in the future and max_days_after > 0,
\* generate_comment_date returns a date at least one minute after the base,
\* the fallback draw included; so every stored comment's created_at is
\* later than its post's created_at.
C16_CommentAfterPost ==
    /\ FollowupCalled =>
          /\ lastCall.ret.exc = "none"
          /\ lastCall.ret.value >= lastCall.args[2] + Seconds(min_seconds)
          /\ lastCall.ret.value > lastCall.args[2]
    /\ \A i \in 1..Len(store) : \A k \in 1..Len(store[i].comments) :
          store[i].comments[k].created_at > store[i].created_at

\* The base is less than a minute old, the fallback draw was used and the
\* date returned lies after the time of the call.
C16_Witness ==
    /\ FollowupCalled
    /\ lastCall.args[1] - lastCall.args[2] < Seconds(min_seconds)
    /\ lastCall.ret.exc = "none"
    /\ lastCall.ret.value > lastCall.args[1]

\* C17: generate_random_date raises ValueError for every days_back <= 0 and
\* for every days_back > 0 returns a date t with
\* now - days_back days <= t <= now.
C17_PastRange ==
    lastCall.op = "generate_random_date" =>
        LET now == lastCall.args[1]
            days_back == lastCall.args[2]
        IN  IF days_back <= 0
            THEN lastCall.ret.exc = "ValueError"
            ELSE /\ lastCall.ret.exc = "none"
                 /\ now - DaysDelta(days_back) <= lastCall.ret.value
                 /\ lastCall.ret.value <= now

\* A call with a positive days_back returned the earliest date allowed.
C17_Witness ==
    /\ lastCall.op = "generate_random_date"
    /\ lastCall.args[2] > 0
    /\ lastCall.ret.exc = "none"
    /\ lastCall.ret.value = lastCall.args[1] - DaysDelta(lastCall.args[2])

\* ------------------------------------------------------- comment search

\* The largest limit a search is made with; GET /comments/search takes
\* limit >= 1.
MaxLimit == 2

\* Texts are sequences of characters.  Comment bodies and queries of the
\* searches followed: letters in both cases, and a blank query.
CommentBodies == {<<"A">>, <<"a", "b">>}
Queries == {<<"a">>, <<"A">>, <<"B">>, <<"b", "a">>, <<" ">>}

\* str.lower()
LowerChar(c) == IF c = "A" THEN "a" ELSE IF c = "B" THEN "b" ELSE c
lower(text) == [i \in 1..Len(text) |-> LowerChar(text[i])]

\* str.strip()
RECURSIVE strip(_)
strip(text) ==
    IF text = <<>> THEN <<>>
    ELSE IF Head(text) = " " THEN strip(Tail(text))
    ELSE IF text[Len(text)] = " " THEN strip(SubSeq(text, 1, Len(text) - 1))
    ELSE text

\* `needle in text`
Contains(text, needle) ==
    \E i \in 1..(Len(text) - Len(needle) + 1) :
        SubSeq(text, i, i + Len(needle) - 1) = needle

\* {"$regex": query, "$options": "i"} on a text, for a query of letters and
\* blanks: the text has the query in it, case not looked at.
RegexMatches(query, text) == Contains(lower(text), lower(query))

\* The comment lists a post may have, and the collections searched: posts
\* 1..n in the order find() lists them.
CommentLists == SeqsUpTo({[body |-> b] : b \in CommentBodies}, MaxLen)

SearchDoc(id, comments) ==
    [post_id |-> id, body |-> "src", updated_at |-> None, comments |-> comments]

SearchStores ==
    UNION {{[i \in 1..n |-> SearchDoc(i, f[i])] : f \in [1..n -> CommentLists]} :
               n \in 0..MaxId}

\* find(regex_filter).limit(limit): the first limit posts with a comment
\* whose body matches (limit >= 1).
FindComments(s, query, limit) ==
    FirstN(SelectSeq(s, LAMBDA doc :
                        \E k \in 1..Len(doc.comments) :
                            RegexMatches(query, doc.comments[k].body)),
           limit)

\* The comments of the posts found that pass the test of the inner loop, as
\* <<post_id, position>>, in the order of the loops.
RECURSIVE MatchingComments(_, _)
MatchingComments(posts, query) ==
    IF posts = <<>> THEN <<>>
    ELSE LET doc == Head(posts)
             hits == SelectSeq([k \in 1..Len(doc.comments) |-> k],
                               LAMBDA k : Contains(lower(doc.comments[k].body),
                                                   lower(query)))
         IN  [k \in 1..Len(hits) |-> <<doc.post_id, hits[k]>>]
                 \o MatchingComments(Tail(posts), query)

\* PostService.search_comments(query, limit) on collection s.
search_comments(s, query, limit) ==
    IF strip(query) = <<>>
    THEN [exc |-> "ValueError", comments |-> <<>>, total_count |-> 0]
    ELSE LET all_comments == MatchingComments(FindComments(s, query, limit), query)
         IN  [exc |-> "none",
              comments |-> FirstN(all_comments, limit),
              total_count |-> Len(all_comments)]

\* GET /comments/search
SearchCall(query, limit) ==
    /\ lastCall' = CallOf("search", <<query, limit>>,
                          search_comments(store, query, limit))
    /\ UNCHANGED <<fetcher_task, fetcher_running, tasks, store, orphans, source,
                   max_posts_per_fetch, Env>>

InitSearch ==
    /\ InitScheduler
    /\ Serving
    /\ store \in SearchStores
    /\ source = <<>>
    /\ max_posts_per_fetch = 10

NextSearch == \E query \in Queries, limit \in 1..MaxLimit : SearchCall(query, limit)

SpecSearch == InitSearch /\ [][NextSearch]_vars

\* The comments of the whole collection whose body has the query in it, case
\* not looked at.
AllMatches(s, query) ==
    {<<i, k>> \in (1..Len(s)) \X (1..MaxLen) :
        /\ k <= Len(s[i].comments)
        /\ Contains(lower(s[i].comments[k].body), lower(query))}

\* C18: the total_count of a search is the number of comments of the whole
\* collection whose body contains the query, case not looked at, also when
\* more than limit comments or posts match.
C18_TotalCount ==
    (lastCall.op = "search" /\ lastCall.ret.exc = "none") =>
        lastCall.ret.total_count = Cardinality(AllMatches(store, lastCall.args[1]))

\* ------------------------------------------------- the loop left running

\* The record the for loop of task t is at.
CurrentId(t) == ToProcess(tasks[t])[tasks[t].idx]

\* The child fetch of task t, for a source whose records in `failing` never
\* get through _fetch_comments_for_post / _transform_post_data and whose
\* other records always do.
ChildFetch(t) ==
    /\ Runs(t, "comments")
    /\ CommentsFetched(t, CurrentId(t) \notin failing)

\* The steps of the loop when the listing and the query of the stored ids
\* get their answers.
LiveStep(t) ==
    \/ Begin(t)
    \/ PostsFetched(t, TRUE)
    \/ ExistingFetched(t, TRUE)
    \/ ChildFetch(t)
    \/ InsertLands(t)
    \/ SaveReturns(t)
    \/ CloseReturns(t)
    \/ Wake(t)

\* The application is up: lifespan has called start_fetcher(), the loop task
\* is created and has not run yet.  Nobody stops it.
InitLive ==
    /\ fetcher_task = 1
    /\ fetcher_running = FALSE
    /\ tasks = [t \in TaskIds |->
                  IF t = 1 THEN [FreeTask EXCEPT !.st = "pending"] ELSE FreeTask]
    /\ orphans = {}
    /\ lastCall = Call("none", "none")
    /\ clock = 0
    /\ lifespan = "serving"
    /\ db = Connected
    /\ failing \in SUBSET PostIds
    /\ store = <<>>
    /\ source \in SeqsUpTo(PostIds, MaxLen)
    /\ max_posts_per_fetch \in 1..MaxLen

NextLive == \E t \in TaskIds : LiveStep(t)

\* The event loop runs a task that can take a step: replies arrive and
\* sleeps end.
SpecLive == InitLive /\ [][NextLive]_vars /\ WF_vars(NextLive)

C20_OthersStored ==
    <>[](\A i \in 1..Len(source) :
            source[i] \notin failing => source[i] \in StoredIds(store))

\* ------------------------------------------------------ a stopped loop

\* Starts and stops at any moment, over a source of two records.
InitStop ==
    /\ InitScheduler
    /\ Serving
    /\ store = <<>>
    /\ source = Feed(2)
    /\ max_posts_per_fetch = 10

NextStop ==
    \/ Start
    \/ Stop
    \/ \E t \in TaskIds : TaskStep(t)
    \/ \E id \in PostIds : OrphanLands(id)

\* The event loop runs every task that can take a step: a CancelledError is
\* delivered, replies arrive, close() returns, sleeps end.
SpecStop ==
    InitStop /\ [][NextStop]_vars /\ \A t \in TaskIds : WF_vars(TaskStep(t))

\* What is left to a task that stop() cancelled: the insert it had sent is
\* answered, the cycle unwinds to its close(), the task ends.
AfterStop(t) ==
    (Stopping(t) /\ tasks'[t] # tasks[t]) =>
        /\ tasks'[t].pc \in {"saved", "close", "none"}
        /\ tasks'[t].idx <= tasks[t].idx
        /\ tasks'[t].pc = "close" => tasks'[t].exc = "cancelled"
        /\ tasks'[t].pc = "none" => ~Alive(t)'

\* C21: after a stop() that returned true, the task it stopped starts no new
\* cycle and begins no further record of the cycle it was in, and it
\* terminates in the end, also when a start() follows at once.
C21_StoppedTaskEnds ==
    /\ [][\A t \in TaskIds : AfterStop(t)]_vars
    /\ \A t \in TaskIds : Stopping(t) ~> ~Alive(t)

\* A task stopped inside a cycle with a record still to go is unwinding,
\* while the loop a later start() created is inside its own cycle.
C21_Witness ==
    \E t, u \in TaskIds :
        /\ t # u
        /\ Alive(t) /\ tasks[t].exc = "cancelled"
        /\ fetcher_task = u /\ Runs(u, "comments")
        /\ Len(store) = 1 /\ Len(source) >= 2

\* ------------------------------------------- a post and its comments

\* What GET /posts/{id}/comments may answer: an error (the transport or
\* raise_for_status() raises), or a list of raw comments, each of which
\* passes the validation of CommentModel or does not.
RawComments(valid) == [k \in 1..Len(valid) |-> [id |-> k, valid |-> valid[k]]]
Fetched ==
    {[exc |-> "HTTPError", comments |-> <<>>]}
        \cup {[exc |-> "none", comments |-> RawComments(v)] :
                  v \in SeqsUpTo(BOOLEAN, MaxLen)}

\* A transformation that leaves out the comments that fail validation.
RECURSIVE TransformLenient(_, _)
TransformLenient(comments_data, transformed_comments) ==
    IF comments_data = <<>>
    THEN [exc |-> "none", comments |-> transformed_comments]
    ELSE TransformLenient(Tail(comments_data),
             IF Head(comments_data).valid
             THEN Append(transformed_comments, [comment_id |-> Head(comments_data).id])
             ELSE transformed_comments)

\* The for loop of _transform_post_data: one CommentModel per raw comment, in
\* order; the first that fails validation raises out of the function.
RECURSIVE TransformComments(_, _)
TransformComments(comments_data, transformed_comments) ==
    IF comments_data = <<>>
    THEN [exc |-> "none", comments |-> transformed_comments]
    ELSE IF ~Head(comments_data).valid
    THEN [exc |-> "ValidationError", comments |-> <<>>]
    ELSE TransformComments(Tail(comments_data),
             Append(transformed_comments, [comment_id |-> Head(comments_data).id]))

\* _transform_post_data(post_data, comments_data) with RANDOM_DATE_RANGE_DAYS
\* = days and a post whose fields pass PostModel's validation or do not:
\* the post's date, the comments, then the PostModel.
transform_post_data(id, post_valid, comments_data, days) ==
    IF days <= 0
    THEN [exc |-> "ValueError", doc |-> None]
    ELSE LET transformed == TransformComments(comments_data, <<>>)
         IN  IF transformed.exc # "none"
             THEN [exc |-> transformed.exc, doc |-> None]
             ELSE IF ~post_valid
             THEN [exc |-> "ValidationError", doc |-> None]
             ELSE [exc |-> "none",
                   doc |-> [post_id |-> id, body |-> "src", updated_at |-> None,
                            comments |-> transformed.comments]]

\* insert_one(post_dict) under the unique index: the whole document, or
\* DuplicateKeyError and nothing.
insert_one_doc(s, doc) ==
    IF DuplicateKey(s, doc.post_id) THEN s ELSE AddDoc(s, doc)

\* One pass of the for loop of fetch_and_store_data for record id, from the
\* child fetch to the insert: its try/except turns every failure into a
\* skipped record.
ProcessRecord(id, fetched, post_valid, days) ==
    /\ LET model == IF fetched.exc # "none"
                    THEN [exc |-> fetched.exc, doc |-> None]
                    ELSE transform_post_data(id, post_valid, fetched.comments, days)
           outcome == IF model.exc # "none" THEN model.exc
                      ELSE IF DuplicateKey(store, id) THEN "DuplicateKeyError"
                      ELSE "stored"
       IN  /\ store' = IF model.exc = "none" THEN insert_one_doc(store, model.doc)
                       ELSE store
           /\ lastCall' = CallOf("process", <<id, fetched, post_valid, days>>, outcome)
    /\ UNCHANGED <<fetcher_task, fetcher_running, tasks, orphans, source,
                   max_posts_per_fetch, Env>>

InitRecord ==
    /\ InitScheduler
    /\ Serving
    /\ store = <<>>
    /\ source = <<>>
    /\ max_posts_per_fetch = 10

NextRecords ==
    \E id \in {1, 2}, fetched \in Fetched, post_valid \in BOOLEAN, days \in {0, 1} :
        ProcessRecord(id, fetched, post_valid, days)

SpecRecord == InitRecord /\ [][NextRecords]_vars

\* Everything about the record of the last pass was in order: the comments
\* came, each of them and the post pass validation, the dates can be made.
AllInOrder ==
    /\ lastCall'.args[2].exc = "none"
    /\ \A k \in 1..Len(lastCall'.args[2].comments) : lastCall'.args[2].comments[k].valid
    /\ lastCall'.args[3]
    /\ lastCall'.args[4] > 0

\* The documents of the id in the collection after the pass.
DocsAfter == Docs(store', lastCall'.args[1])

\* C22: a post is written with all the comments fetched for it or not at
\* all: when the child fetch fails, or the post or one comment fails
\* validation or date synthesis, the pass inserts nothing, and a document
\* that is inserted carries every fetched comment.
C22_AllOrNothing ==
    [][lastCall'.op = "process" =>
          /\ ~AllInOrder => store' = store
          /\ store' # store =>
                /\ Docs(store, lastCall'.args[1]) = {}
                /\ Len(store') = Len(store) + 1
                /\ \E doc \in DocsAfter :
                      /\ DocsAfter = {doc}
                      /\ Len(doc.comments) = Len(lastCall'.args[2].comments)
                      /\ \A k \in 1..Len(doc.comments) :
                            doc.comments[k].comment_id = lastCall'.args[2].comments[k].id
          /\ \A i \in 1..Len(store) : \E j \in 1..Len(store') : store'[j] = store[i]]_vars

\* A post is stored with its two comments, and a later pass for another
\* post, whose second comment fails validation, has stored nothing.
C22_Witness ==
    /\ lastCall.op = "process"
    /\ lastCall.ret = "ValidationError"
    /\ Len(lastCall.args[2].comments) = 2
    /\ lastCall.args[2].comments[1].valid /\ ~lastCall.args[2].comments[2].valid
    /\ Len(store) = 1
    /\ store[1].post_id # lastCall.args[1]
    /\ Len(store[1].comments) = 2

\* -------------------------------------------------- the cycle's summary

\* The cycle of task t has returned its summary (close() is awaited).
Summarised(t) == tasks[t].st = "active" /\ tasks[t].pc = "close" /\ tasks[t].exc = "none"

\* The summary counts what the cycle did: new_posts the documents it
\* inserted (each in the store, none known before, no id twice),
\* skipped_posts the candidates its snapshot knew.
SummaryCounts(t) ==
    LET r == tasks[t] IN
    Summarised(t) =>
        /\ r.summary.total_fetched = Len(r.all_posts)
        /\ r.summary.new_posts = Len(r.inserted)
        /\ \A k \in 1..Len(r.inserted) :
              /\ r.inserted[k] \in StoredIds(store)
              /\ r.inserted[k] \notin r.existing_ids
              /\ Occurrences(r.inserted, r.inserted[k]) = 1
        /\ r.summary.skipped_posts =
              Cardinality({i \in 1..Len(r.all_posts) : r.all_posts[i] \in r.existing_ids})
        /\ r.summary.new_posts + r.summary.skipped_posts <= r.summary.total_fetched

\* A cycle notes an insert exactly when its insert_one added the document.
NotesInsert(t) ==
    (tasks[t].pc = "saved" /\ Steps(t) /\ tasks[t].st = "active" /\ ~tasks[t].cancel) =>
        IF tasks[t].res = "ok"
        THEN tasks'[t].inserted = Append(tasks[t].inserted, CurrentId(t))
        ELSE tasks'[t].inserted = tasks[t].inserted

\* C23: in every cycle summary new_posts is the number of documents the
\* cycle inserted, skipped_posts the number of candidates whose id was in
\* its snapshot, and new_posts + skipped_posts <= total_fetched: what the
\* cap, a failure or a lost insert race dropped is in neither count.
C23_SummaryCounts ==
    /\ [](\A t \in TaskIds : SummaryCounts(t))
    /\ [][\A t \in TaskIds : InsertAnswered(t) /\ NotesInsert(t)]_vars

\* A cycle lost the insert of one of its two records to another writer and
\* stored the other: its summary reports one new, none skipped, two fetched.
C23_Witness ==
    \E t \in TaskIds :
        /\ Summarised(t)
        /\ tasks[t].lost
        /\ tasks[t].summary = [total_fetched |-> 2, new_posts |-> 1, skipped_posts |-> 0]

\* ------------------------------------------------ a connect() that raised

\* DatabaseManager.get_database(): the database, or ConnectionError when the
\* manager is not connected or has no database.
get_database ==
    IF ~db.is_connected \/ ~db.database THEN "ConnectionError" ELSE "database"

\* DatabaseManager.get_posts_collection(): get_database()["posts"].
get_posts_collection ==
    IF get_database = "ConnectionError" THEN "ConnectionError" ELSE "posts"

\* C24: whenever connect() raises, at the ping or at the creation of an
\* index, the manager is left not connected, and a request for the posts
\* collection gets a ConnectionError, not a handle to a collection whose
\* unique post_id index may be missing.
C24_RaisedMeansNotConnected ==
    lifespan = "failed" =>
        /\ ~db.is_connected
        /\ get_posts_collection = "ConnectionError"

====
